---------------------------- MODULE Spec2Model ----------------------------
(***************************************************************************)
(* Model of query_generator.py: the statement builders                     *)
(* build_insert_query / build_update_query, the validator is_valid_sql,    *)
(* and the Streamlit script that assembles their arguments and surfaces    *)
(* their results.                                                          *)
(*                                                                         *)
(* A Python str is modelled as a sequence of one-character strings, so     *)
(* that joining, quoting, stripping and splitting are computed character   *)
(* by character.  Non-ASCII characters of the source's messages (emoji)    *)
(* are single named elements such as "<siren>".                            *)
(***************************************************************************)
EXTENDS Integers, Sequences, FiniteSets, TLC

(***************************************************************************)
(* Python str / list primitives                                            *)
(***************************************************************************)

\* Characters str.strip() removes and \s matches (the ones the model uses).
Whitespace == {" ", "\t", "\n"}

Min(a, b) == IF a <= b THEN a ELSE b

\* sep.join(items)
RECURSIVE Join(_, _)
Join(sep, items) ==
    IF items = <<>> THEN <<>>
    ELSE IF Len(items) = 1 THEN items[1]
    ELSE items[1] \o sep \o Join(sep, Tail(items))

\* list(zip(a, b)): stops at the shorter argument
Zip(a, b) == [i \in 1..Min(Len(a), Len(b)) |-> <<a[i], b[i]>>]

\* s.lstrip()
RECURSIVE LStrip(_)
LStrip(s) ==
    IF s # <<>> /\ Head(s) \in Whitespace THEN LStrip(Tail(s)) ELSE s

\* s.rstrip()
RECURSIVE RStrip(_)
RStrip(s) ==
    IF s # <<>> /\ s[Len(s)] \in Whitespace
    THEN RStrip(SubSeq(s, 1, Len(s) - 1)) ELSE s

\* s.strip()
Strip(s) == RStrip(LStrip(s))

\* s.lower() on the ASCII letters the metadata flags use
LowerChar(c) ==
    CASE c = "Y" -> "y" [] c = "E" -> "e" [] c = "S" -> "s"
      [] c = "N" -> "n" [] c = "O" -> "o" [] OTHER -> c
Lower(s) == [i \in 1..Len(s) |-> LowerChar(s[i])]

\* None, as st.selectbox returns it for an empty option list.
None == <<"<None>">>

\* str(v) as an f-string field renders it.
Str(v) == IF v = None THEN <<"N","o","n","e">> ELSE v

(***************************************************************************)
(* String constants of the source                                          *)
(***************************************************************************)
CommaSpace == <<",", " ">>
Quote == <<"'">>
Placeholder == <<"?">>
Dot == <<".">>
InsertInto == <<"I","N","S","E","R","T"," ","I","N","T","O"," ">>
OpenCols == <<" ", "(">>
ValuesOpen == <<")"," ","V","A","L","U","E","S"," ","(">>
CloseStmt == <<")", ";">>
UpdateKw == <<"U","P","D","A","T","E"," ">>
SetKw == <<" ","S","E","T"," ">>
WhereKw == <<" ","W","H","E","R","E"," ">>
EqQ == <<"=", "?">>
Eq == <<"=">>
Semi == <<";">>

(***************************************************************************)
(* Statement Builder                                                       *)
(***************************************************************************)

\* build_insert_query with the values listed in reverse order
BuildInsertReversedValues(catalog, schema, table, columns, values, param_mode) ==
    LET n == Len(values)
        cols == Join(CommaSpace, columns)
        vals == IF param_mode
                THEN Join(CommaSpace, [i \in 1..n |-> Placeholder])
                ELSE Join(CommaSpace, [i \in 1..n |-> Quote \o values[n + 1 - i] \o Quote])
    IN InsertInto \o catalog \o Dot \o schema \o Dot \o table
         \o OpenCols \o cols \o ValuesOpen \o vals \o CloseStmt

\* build_insert_query that embeds the values whatever param_mode says
BuildInsertAlwaysLiteral(catalog, schema, table, columns, values, param_mode) ==
    LET cols == Join(CommaSpace, columns)
        vals == Join(CommaSpace, [i \in 1..Len(values) |-> Quote \o values[i] \o Quote])
    IN InsertInto \o catalog \o Dot \o schema \o Dot \o table
         \o OpenCols \o cols \o ValuesOpen \o vals \o CloseStmt

\* build_insert_query, lines 13-20.  No length check is made: cols is
\* built from columns alone and vals from values alone.
build_insert_query(catalog, schema, table, columns, values, param_mode) ==
    LET cols == Join(CommaSpace, columns)
        vals == IF param_mode
                THEN Join(CommaSpace, [i \in 1..Len(values) |-> Placeholder])
                ELSE Join(CommaSpace,
                          [i \in 1..Len(values) |-> Quote \o values[i] \o Quote])
    IN InsertInto \o catalog \o Dot \o schema \o Dot \o table
         \o OpenCols \o cols \o ValuesOpen \o vals \o CloseStmt

\* build_update_query whose WHERE predicate embeds where_value in both modes
BuildUpdateLiteralWhere(catalog, schema, table, set_columns, set_values, where_column, where_value, param_mode) ==
    LET pairs == Zip(set_columns, set_values)
        set_expr ==
            IF param_mode
            THEN Join(CommaSpace,
                      [i \in 1..Len(set_columns) |-> set_columns[i] \o EqQ])
            ELSE Join(CommaSpace,
                      [i \in 1..Len(pairs) |->
                          pairs[i][1] \o Eq \o Quote \o pairs[i][2] \o Quote])
        where_expr == Str(where_column) \o Eq \o Quote \o where_value \o Quote
    IN UpdateKw \o catalog \o Dot \o schema \o Dot \o table
         \o SetKw \o set_expr \o WhereKw \o where_expr \o Semi

\* build_update_query, lines 22-30.  Literal mode zips the two lists, so
\* the longer one is cut to the shorter; parameterized mode reads
\* set_columns only.
build_update_query(catalog, schema, table, set_columns, set_values, where_column, where_value, param_mode) ==
    LET pairs == Zip(set_columns, set_values)
        set_expr ==
            IF param_mode
            THEN Join(CommaSpace,
                      [i \in 1..Len(set_columns) |-> set_columns[i] \o EqQ])
            ELSE Join(CommaSpace,
                      [i \in 1..Len(pairs) |->
                          pairs[i][1] \o Eq \o Quote \o pairs[i][2] \o Quote])
        where_expr ==
            IF param_mode THEN Str(where_column) \o EqQ
            ELSE Str(where_column) \o Eq \o Quote \o where_value \o Quote
    IN UpdateKw \o catalog \o Dot \o schema \o Dot \o table
         \o SetKw \o set_expr \o WhereKw \o where_expr \o Semi

(***************************************************************************)
(* Syntax Validator                                                        *)
(*                                                                         *)
(* sqlparse.parse(query), called at line 34, is a non-validating parser:   *)
(* it lexes the text, cuts the token stream into statements and returns    *)
(* a tuple of sql.Statement objects.  Statement is a TokenList, and every  *)
(* TokenList has is_group = True.  The model keeps the parts of it that    *)
(* decide how many statements come back: single-quoted string literals     *)
(* (one token, so a ';' inside does not split), parentheses (a ';' inside  *)
(* an open parenthesis does not split), whitespace after a ';' (kept with  *)
(* the statement it follows) and a whitespace-only remainder (dropped).    *)
(* Keywords that change the split level (CREATE, BEGIN, DECLARE, ...) and  *)
(* comments do not occur in the texts of the model.                        *)
(***************************************************************************)

\* Position of the first quote character at or after position k, 0 if none.
NextQuote(s, k) ==
    IF \E j \in k..Len(s) : s[j] = "'"
    THEN CHOOSE j \in k..Len(s) : s[j] = "'" /\ \A m \in k..(j - 1) : s[m] # "'"
    ELSE 0

\* The lexer's String.Single rule '(''|[^'])*' tried after an opening quote
\* (the texts of the model hold no backslash): k is the position after the
\* opening quote; the result is the position of the closing quote, or 0
\* when the rule does not match.  A doubled quote is taken as part of the
\* literal when the rest still matches, as the closing quote otherwise.
RECURSIVE MatchStringBody(_, _)
MatchStringBody(s, k) ==
    LET q == NextQuote(s, k)
    IN IF q = 0 THEN 0
       ELSE IF q < Len(s) /\ s[q + 1] = "'"
            THEN LET r == MatchStringBody(s, q + 2) IN IF r # 0 THEN r ELSE q
       ELSE q

\* The spans <<first, last>> of the string-literal tokens of s from
\* position i on.  A quote that opens no literal is a token of its own.
RECURSIVE StringSpans(_, _)
StringSpans(s, i) ==
    LET q == NextQuote(s, i)
    IN IF q = 0 THEN {}
       ELSE LET e == MatchStringBody(s, q + 1)
            IN IF e # 0 THEN {<<q, e>>} \cup StringSpans(s, e + 1)
               ELSE StringSpans(s, q + 1)

InString(spans, p) == \E sp \in spans : sp[1] <= p /\ p <= sp[2]

\* StatementSplitter's level after the token at p of a statement that
\* starts at start: +1 for each '(' token, -1 for each ')' token.
SplitLevel(s, spans, start, p) ==
    Cardinality({ j \in start..p : s[j] = "(" /\ ~InString(spans, j) })
      - Cardinality({ j \in start..p : s[j] = ")" /\ ~InString(spans, j) })

\* Position of the ';' token that ends the statement starting at start
\* (the first one read at level <= 0), 0 if there is none.
StatementEnd(s, spans, start) ==
    LET ends == { p \in start..Len(s) :
                    s[p] = ";" /\ ~InString(spans, p)
                      /\ SplitLevel(s, spans, start, p) <= 0 }
    IN IF ends = {} THEN 0 ELSE CHOOSE p \in ends : \A r \in ends : p <= r

\* Last position of the run of Whitespace tokens that follows position p.
WhitespaceRunEnd(s, p) ==
    CHOOSE q \in p..Len(s) :
        /\ \A m \in (p + 1)..q : s[m] \in {" ", "\t"}
        /\ (q = Len(s) \/ s[q + 1] \notin {" ", "\t"})

\* StatementSplitter.process from the statement that starts at start: a
\* statement ends with its ';' and the whitespace after it; what is left
\* at the end of the text is a statement unless it is all whitespace.
RECURSIVE SplitStatements(_, _, _)
SplitStatements(s, spans, start) ==
    IF start > Len(s) THEN <<>>
    ELSE LET p == StatementEnd(s, spans, start)
         IN IF p = 0
            THEN IF \E k \in start..Len(s) : s[k] \notin Whitespace
                 THEN << [is_group |-> TRUE, text |-> SubSeq(s, start, Len(s))] >>
                 ELSE <<>>
            ELSE LET q == WhitespaceRunEnd(s, p)
                 IN << [is_group |-> TRUE, text |-> SubSeq(s, start, q)] >>
                      \o SplitStatements(s, spans, q + 1)

\* sqlparse.parse(query): the tuple of top-level units.
parse(query) == SplitStatements(query, StringSpans(query, 1), 1)

\* The value st.error is given at line 37.
ValidationErrorPrefix == <<"S","Q","L"," ","v","a","l","i","d","a","t","i","o","n"," ","e","r","r","o","r",":"," ">>

\* No exception was raised by the parser.
NoFault == <<>>

\* is_valid_sql without the try/except: the parser's exception leaves it
IsValidSqlNoCatch(query, fault) ==
    IF fault = NoFault
    THEN LET parsed == parse(query)
         IN [value |-> (parsed # <<>>) /\ (\A k \in 1..Len(parsed) : parsed[k].is_group),
             errors |-> <<>>,
             propagated |-> FALSE]
    ELSE [value |-> FALSE, errors |-> <<>>, propagated |-> TRUE]

\* is_valid_sql, lines 32-38.  fault is the message of the exception that
\* sqlparse.parse raises for this call, NoFault when it returns.  The
\* result records the returned value, the messages given to st.error and
\* whether an exception leaves the function.
is_valid_sql(query, fault) ==
    IF fault = NoFault
    THEN LET parsed == parse(query)
         IN [value |-> (parsed # <<>>) /\ (\A k \in 1..Len(parsed) : parsed[k].is_group),
             errors |-> <<>>,
             propagated |-> FALSE]
    ELSE [value |-> FALSE,
          errors |-> << ValidationErrorPrefix \o fault >>,
          propagated |-> FALSE]

(***************************************************************************)
(* Names and texts the model draws its inputs from                         *)
(***************************************************************************)
id == <<"i","d">>
name == <<"n","a","m","e">>
age == <<"a","g","e">>
address == <<"a","d","d","r","e","s","s">>
my_catalog == <<"m","y","_","c","a","t","a","l","o","g">>
my_schema == <<"m","y","_","s","c","h","e","m","a">>
my_table == <<"m","y","_","t","a","b","l","e">>
yes == <<"y","e","s">>
no == <<"n","o">>

\* The template of generate_sample_excel, lines 41-51.
SampleMetadata ==
    [table_info |-> [table_name |-> my_table, catalog_name |-> my_catalog,
                     schema_name |-> my_schema],
     columns_df |-> << [column_name |-> id, is_mandatory |-> yes],
                       [column_name |-> name, is_mandatory |-> yes],
                       [column_name |-> age, is_mandatory |-> no],
                       [column_name |-> address, is_mandatory |-> no] >>]

\* Uploaded workbooks: the template, one whose flags are written in other
\* cases and hold a value that is neither yes nor no, and one without
\* mandatory columns.
Metadata ==
    { SampleMetadata,
      [table_info |-> [table_name |-> <<"t">>, catalog_name |-> <<"a">>,
                       schema_name |-> <<"b">>],
       columns_df |-> << [column_name |-> name, is_mandatory |-> <<"N","o">>],
                         [column_name |-> id, is_mandatory |-> <<"Y","E","S">>],
                         [column_name |-> age, is_mandatory |-> <<"n","/","a">>] >>],
      [table_info |-> [table_name |-> <<"t">>, catalog_name |-> <<"a">>,
                       schema_name |-> <<"b">>],
       columns_df |-> << [column_name |-> id, is_mandatory |-> no] >>] }

\* Texts a user types into a text_input.
bob == <<"b","o","b">>
alice == <<"a","l","i","c","e">>
OBrien == <<"O","'","B","r","i","e","n">>
FieldTexts == { <<>>, <<" ">>, bob, OBrien }

\* Messages of the exceptions sqlparse.parse raises.
FaultMessages == { <<"d","e","p","t","h">> }
Faults == {NoFault} \cup FaultMessages

(***************************************************************************)
(* The Streamlit script, lines 101-177.  Every user interaction reruns     *)
(* the script; a button returns True only in the rerun its click causes.   *)
(***************************************************************************)
VARIABLES
    table_info,             \* row of tables_df for selected_table (line 105)
    columns_df,             \* rows of columns_df for selected_table (line 111)
    catalog, schema,        \* st.text_input values, lines 107-108
    param_mode,             \* st.checkbox value, line 116
    text_input,             \* session values of the keyed st.text_input widgets
    selected_optional_cols, \* st.multiselect "optional_cols", line 125
    update_columns,         \* st.multiselect "update_cols", line 156
    where_column,           \* st.selectbox "where_col", line 162
    button,                 \* the st.button that returned True in the latest rerun
    events,                 \* what the latest rerun's handler called and showed
    edits,                  \* number of widget interactions so far
    call, ret, built        \* direct calls of the three functions

shellVars == << table_info, columns_df, catalog, schema, param_mode, text_input,
                selected_optional_cols, update_columns, where_column, button, events,
                edits >>
apiVars == << call, ret, built >>
vars == << shellVars, apiVars >>

\* Number of widget interactions explored before the buttons are clicked.
MaxEdits == 4

Range(seq) == { seq[i] : i \in 1..Len(seq) }

\* column_name of the rows of df whose is_mandatory.str.lower() equals flag,
\* in row order
RECURSIVE ColumnsFlagged(_, _)
ColumnsFlagged(df, flag) ==
    IF df = <<>> THEN <<>>
    ELSE (IF Lower(Head(df).is_mandatory) = flag THEN << Head(df).column_name >> ELSE <<>>)
           \o ColumnsFlagged(Tail(df), flag)

\* Line 112
mandatory_columns == ColumnsFlagged(columns_df, yes)

\* Line 113
optional_columns == ColumnsFlagged(columns_df, no)

\* Widget keys: f"insert_{col}", f"insert_optional_{col}", f"update_{col}", "where_val"
KeyInsert(col) == <<"i","n","s","e","r","t","_">> \o col
KeyInsertOptional(col) == <<"i","n","s","e","r","t","_","o","p","t","i","o","n","a","l","_">> \o col
KeyUpdate(col) == <<"u","p","d","a","t","e","_">> \o col
KeyWhereVal == <<"w","h","e","r","e","_","v","a","l">>

\* Lines 119-122
insert_values == [i \in 1..Len(mandatory_columns) |-> text_input[KeyInsert(mandatory_columns[i])]]

\* Lines 127-130
optional_values ==
    [i \in 1..Len(selected_optional_cols) |->
        text_input[KeyInsertOptional(selected_optional_cols[i])]]

\* Line 132
final_columns == mandatory_columns \o selected_optional_cols

\* final_values with the optional values put first
FinalValuesOptionalFirst == optional_values \o insert_values

\* Line 133
final_values == insert_values \o optional_values

\* Lines 157-160
update_values == [i \in 1..Len(update_columns) |-> text_input[KeyUpdate(update_columns[i])]]

\* Line 163
where_value == text_input[KeyWhereVal]

\* Keys of the text_input widgets of a run that renders the mandatory
\* columns mand, the selected optional columns opt and the update columns upd.
KeysFor(mand, opt, upd) ==
    { KeyInsert(c) : c \in Range(mand) } \cup { KeyInsertOptional(c) : c \in Range(opt) }
      \cup { KeyUpdate(c) : c \in Range(upd) } \cup { KeyWhereVal }

\* Keys of the text_input widgets the script renders in the current state.
RenderedKeys == KeysFor(mandatory_columns, selected_optional_cols, update_columns)

\* Session values after a rerun that renders the widgets of keys: a widget
\* rendered before keeps its text unless its key is in reset, any other
\* starts empty, and the text of a widget no longer rendered is dropped.
Rerendered(keys, reset) ==
    [k \in keys |-> IF k \in DOMAIN text_input /\ k \notin reset
                    THEN text_input[k] ELSE <<>>]

(***************************************************************************)
(* Button handlers.  An event records one call or one st.* output of the   *)
(* handler: op, the text involved, a boolean result, and for a builder     *)
(* call its column and value arguments.                                    *)
(***************************************************************************)
Event(op, text, ok, columns, values) ==
    [op |-> op, text |-> text, ok |-> ok, columns |-> columns, values |-> values]

MissingPrefix == <<"<siren>"," ","M","a","n","d","a","t","o","r","y"," ","f","i","e","l","d","s"," ","m","i","s","s","i","n","g"," ","v","a","l","u","e","s",":"," ">>
SuccessMsg == <<"<check>"," ","S","Q","L"," ","s","y","n","t","a","x"," ","l","o","o","k","s"," ","v","a","l","i","d","!">>
InvalidInsertMsg == <<"<cross>"," ","G","e","n","e","r","a","t","e","d"," ","I","N","S","E","R","T"," ","q","u","e","r","y"," ","i","s"," ","i","n","v","a","l","i","d","!">>
InvalidUpdateMsg == <<"<cross>"," ","G","e","n","e","r","a","t","e","d"," ","U","P","D","A","T","E"," ","q","u","e","r","y"," ","i","s"," ","i","n","v","a","l","i","d","!">>
InsertSuffix == <<"_","i","n","s","e","r","t",".","s","q","l">>
UpdateSuffix == <<"_","u","p","d","a","t","e",".","s","q","l">>

\* str.encode('utf-8') of a text of ASCII characters: one byte per character
Encode(text) == [i \in 1..Len(text) |-> [byte |-> text[i]]]
Decode(data) == [i \in 1..Len(data) |-> data[i].byte]

\* st.error calls is_valid_sql made (line 37), as events
ValidatorErrors(v) == [i \in 1..Len(v.errors) |-> Event("st.error", v.errors[i], FALSE, <<>>, <<>>)]

\* missing_fields that tests the value without stripping it
MissingFieldsNoStrip ==
    LET pairs == Zip(mandatory_columns, insert_values)
        RECURSIVE Pick(_)
        Pick(k) == IF k > Len(pairs) THEN <<>>
                   ELSE (IF pairs[k][2] = <<>> THEN << pairs[k][1] >> ELSE <<>>)
                          \o Pick(k + 1)
    IN Pick(1)

\* Line 137
missing_fields ==
    LET pairs == Zip(mandatory_columns, insert_values)
        RECURSIVE Pick(_)
        Pick(k) == IF k > Len(pairs) THEN <<>>
                   ELSE (IF Strip(pairs[k][2]) = <<>> THEN << pairs[k][1] >> ELSE <<>>)
                          \o Pick(k + 1)
    IN Pick(1)

\* Surface that shows the statement whatever the validator returned
SurfaceUnconditional(query, v, suffix, invalid_msg) ==
    << Event("is_valid_sql", query, v.value, <<>>, <<>>) >>
      \o ValidatorErrors(v)
      \o << Event("st.success", SuccessMsg, TRUE, <<>>, <<>>),
            Event("st.code", query, TRUE, <<>>, <<>>),
            Event("st.download_button", Encode(query), TRUE,
                  table_info.table_name \o suffix, <<>>) >>

\* What the handler does with a built statement, lines 142-152 and 167-177
Surface(query, v, suffix, invalid_msg) ==
    << Event("is_valid_sql", query, v.value, <<>>, <<>>) >>
      \o ValidatorErrors(v)
      \o (IF v.value
          THEN << Event("st.success", SuccessMsg, TRUE, <<>>, <<>>),
                  Event("st.code", query, TRUE, <<>>, <<>>),
                  Event("st.download_button", Encode(query), TRUE,
                        table_info.table_name \o suffix, <<>>) >>
          ELSE << Event("st.error", invalid_msg, FALSE, <<>>, <<>>) >>)

\* Lines 135-152
InsertHandler(fault) ==
    IF missing_fields # <<>>
    THEN << Event("st.error", MissingPrefix \o Join(CommaSpace, missing_fields),
                  FALSE, <<>>, <<>>) >>
    ELSE LET insert_query == build_insert_query(catalog, schema, table_info.table_name,
                                                final_columns, final_values, param_mode)
         IN << Event("build_insert_query", insert_query, TRUE, final_columns, final_values) >>
              \o Surface(insert_query, is_valid_sql(insert_query, fault),
                         InsertSuffix, InvalidInsertMsg)

\* Lines 165-177
UpdateHandler(fault) ==
    LET update_query == build_update_query(catalog, schema, table_info.table_name,
                                           update_columns, update_values,
                                           where_column, where_value, param_mode)
    IN << Event("build_update_query", update_query, TRUE, update_columns, update_values) >>
         \o Surface(update_query, is_valid_sql(update_query, fault),
                    UpdateSuffix, InvalidUpdateMsg)

\* st.selectbox without a stored choice: the first option, None when empty
DefaultWhere(options) == IF options = <<>> THEN None ELSE options[1]

\* seq without its element c
RECURSIVE Without(_, _)
Without(seq, c) ==
    IF seq = <<>> THEN <<>>
    ELSE (IF Head(seq) = c THEN <<>> ELSE << Head(seq) >>) \o Without(Tail(seq), c)

NoCall ==
    [fn |-> "none", catalog |-> <<>>, schema |-> <<>>, table |-> <<>>, columns |-> <<>>,
     values |-> <<>>, where_column |-> <<>>, where_value |-> <<>>, param_mode |-> FALSE,
     query |-> <<>>, fault |-> NoFault]
NoRet == [kind |-> "none", text |-> <<>>, value |-> FALSE, errors |-> <<>>]
NoBuilt == [call |-> NoCall, text |-> <<>>]

\* The script's first run after the upload of workbook m
Loaded(m) ==
    /\ table_info = m.table_info
    /\ columns_df = m.columns_df
    /\ catalog = m.table_info.catalog_name
    /\ schema = m.table_info.schema_name
    /\ param_mode = FALSE
    /\ text_input = [k \in KeysFor(ColumnsFlagged(m.columns_df, yes), <<>>, <<>>) |-> <<>>]
    /\ selected_optional_cols = <<>>
    /\ update_columns = <<>>
    /\ where_column = DefaultWhere(ColumnsFlagged(m.columns_df, yes))
    /\ button = "none"
    /\ events = <<>>
    /\ edits = 0

Init ==
    /\ \E m \in Metadata : Loaded(m)
    /\ call = NoCall /\ ret = NoRet /\ built = NoBuilt

\* A rerun caused by a widget other than the two buttons shows no handler output.
Rerun ==
    /\ edits < MaxEdits
    /\ edits' = edits + 1
    /\ button' = "none"
    /\ events' = <<>>
    /\ UNCHANGED << table_info, columns_df, apiVars >>

\* Lines 107-108: the user edits Catalog or Schema
EditCatalog ==
    /\ Rerun
    /\ \E v \in {my_catalog, <<"c">>} : v # catalog /\ catalog' = v
    /\ UNCHANGED << schema, param_mode, text_input, selected_optional_cols,
                    update_columns, where_column >>

EditSchema ==
    /\ Rerun
    /\ \E v \in {my_schema, <<"s">>} : v # schema /\ schema' = v
    /\ UNCHANGED << catalog, param_mode, text_input, selected_optional_cols,
                    update_columns, where_column >>

\* Line 116
ToggleParamMode ==
    /\ Rerun
    /\ param_mode' = ~param_mode
    /\ UNCHANGED << catalog, schema, text_input, selected_optional_cols,
                    update_columns, where_column >>

\* Lines 121, 129, 159, 163: the user types into a rendered text_input
EditText ==
    /\ Rerun
    /\ \E k \in RenderedKeys : \E v \in FieldTexts :
          /\ v # text_input[k]
          /\ text_input' = [text_input EXCEPT ![k] = v]
    /\ UNCHANGED << catalog, schema, param_mode, selected_optional_cols,
                    update_columns, where_column >>

\* Line 125: the user adds or removes one optional column.  The options of
\* "update_cols" and "where_col" are final_columns, so both start over, and
\* the text_input widgets that are no longer rendered lose their texts.
SelectOptional ==
    /\ Rerun
    /\ \E c \in Range(optional_columns) :
          /\ selected_optional_cols' =
                IF c \in Range(selected_optional_cols)
                THEN Without(selected_optional_cols, c)
                ELSE Append(selected_optional_cols, c)
          /\ update_columns' = <<>>
          /\ where_column' = DefaultWhere(mandatory_columns \o selected_optional_cols')
          /\ text_input' =
                Rerendered(KeysFor(mandatory_columns, selected_optional_cols', <<>>),
                           {KeyInsertOptional(c)})
    /\ UNCHANGED << catalog, schema, param_mode >>

\* Line 156: the user adds or removes one column to update
SelectUpdate ==
    /\ Rerun
    /\ \E c \in Range(final_columns) :
          /\ update_columns' =
                IF c \in Range(update_columns)
                THEN Without(update_columns, c)
                ELSE Append(update_columns, c)
          /\ text_input' =
                Rerendered(KeysFor(mandatory_columns, selected_optional_cols,
                                   update_columns'),
                           {KeyUpdate(c)})
    /\ UNCHANGED << catalog, schema, param_mode, selected_optional_cols, where_column >>

\* Line 162
SelectWhere ==
    /\ Rerun
    /\ \E c \in Range(final_columns) : c # where_column /\ where_column' = c
    /\ UNCHANGED << catalog, schema, param_mode, text_input, selected_optional_cols,
                    update_columns >>

\* Line 135: the click on "Generate Insert Query"
GenerateInsert ==
    /\ button' = "insert"
    /\ \E fault \in Faults : events' = InsertHandler(fault)
    /\ UNCHANGED << table_info, columns_df, catalog, schema, param_mode, text_input,
                    selected_optional_cols, update_columns, where_column, edits, apiVars >>

\* Line 165: the click on "Generate Update Query"
GenerateUpdate ==
    /\ button' = "update"
    /\ \E fault \in Faults : events' = UpdateHandler(fault)
    /\ UNCHANGED << table_info, columns_df, catalog, schema, param_mode, text_input,
                    selected_optional_cols, update_columns, where_column, edits, apiVars >>

(***************************************************************************)
(* Direct calls of the three functions, with arguments the script need     *)
(* not produce (lists of different lengths among them).  The functions     *)
(* read nothing but their arguments, so a behaviour is one builder call    *)
(* followed by one validation, or one validation of a given text.          *)
(***************************************************************************)

\* Longest column or value list passed in a direct call.
MaxLen == 2

RECURSIVE SeqsUpTo(_, _)
SeqsUpTo(S, n) ==
    IF n = 0 THEN { <<>> }
    ELSE LET shorter == SeqsUpTo(S, n - 1)
         IN shorter \cup { Append(q, e) : q \in { t \in shorter : Len(t) = n - 1 }, e \in S }

ArgTables == { <<my_catalog, my_schema, my_table>>, << <<"a">>, <<"b">>, <<"c">> >> }
ArgColumns == SeqsUpTo({id, name}, MaxLen)
ArgValues == SeqsUpTo({<<"1">>, bob, alice, OBrien}, MaxLen)
ArgWhereValues == { <<"1">>, OBrien }

\* Texts given to is_valid_sql directly
IncompleteInsert == <<"I","N","S","E","R","T"," ","I","N","T","O">>
WellFormedInsert == <<"I","N","S","E","R","T"," ","I","N","T","O"," ","a",".","b",".","c"," ","(","i","d",")"," ","V","A","L","U","E","S"," ","(","'","1","'",")",";">>
ArgStatements == { <<>>, <<" ">>, IncompleteInsert, WellFormedInsert }

\* Lines 178-179: no workbook is uploaded, the script renders no widget.
NotLoaded ==
    /\ table_info = None /\ columns_df = <<>>
    /\ catalog = None /\ schema = None
    /\ param_mode = FALSE
    /\ text_input = << >>
    /\ selected_optional_cols = <<>> /\ update_columns = <<>>
    /\ where_column = None
    /\ button = "none" /\ events = <<>> /\ edits = 0

InitBuilder ==
    /\ NotLoaded
    /\ call = NoCall /\ ret = NoRet /\ built = NoBuilt

\* build_insert_query(catalog, schema, table, columns, values, param_mode)
CallBuildInsert ==
    /\ built = NoBuilt /\ call = NoCall
    /\ \E t \in ArgTables, columns \in ArgColumns, values \in ArgValues, pm \in BOOLEAN :
          LET c == [NoCall EXCEPT !.fn = "build_insert_query", !.catalog = t[1],
                                  !.schema = t[2], !.table = t[3], !.columns = columns,
                                  !.values = values, !.param_mode = pm]
              text == build_insert_query(t[1], t[2], t[3], columns, values, pm)
          IN /\ call' = c
             /\ ret' = [NoRet EXCEPT !.kind = "returned", !.text = text]
             /\ built' = [call |-> c, text |-> text]
    /\ UNCHANGED shellVars

\* build_update_query(catalog, schema, table, set_columns, set_values,
\*                    where_column, where_value, param_mode)
CallBuildUpdate ==
    /\ built = NoBuilt /\ call = NoCall
    /\ \E t \in ArgTables, columns \in ArgColumns, values \in ArgValues,
          wv \in ArgWhereValues, pm \in BOOLEAN :
          LET c == [NoCall EXCEPT !.fn = "build_update_query", !.catalog = t[1],
                                  !.schema = t[2], !.table = t[3], !.columns = columns,
                                  !.values = values, !.where_column = id,
                                  !.where_value = wv, !.param_mode = pm]
              text == build_update_query(t[1], t[2], t[3], columns, values, id, wv, pm)
          IN /\ call' = c
             /\ ret' = [NoRet EXCEPT !.kind = "returned", !.text = text]
             /\ built' = [call |-> c, text |-> text]
    /\ UNCHANGED shellVars

\* is_valid_sql(query) on a given text or on the statement built last;
\* fault is what sqlparse.parse does in this call.
CallIsValidSql ==
    /\ call.fn # "is_valid_sql"
    /\ \E query \in ArgStatements \cup {built.text}, fault \in Faults :
          LET v == is_valid_sql(query, fault)
          IN /\ call' = [NoCall EXCEPT !.fn = "is_valid_sql", !.query = query,
                                       !.fault = fault]
             /\ ret' = [kind |-> IF v.propagated THEN "raised" ELSE "returned",
                        text |-> <<>>, value |-> v.value, errors |-> v.errors]
    /\ UNCHANGED << built, shellVars >>

NextBuilder == CallBuildInsert \/ CallBuildUpdate \/ CallIsValidSql

SpecBuilder == InitBuilder /\ [][NextBuilder]_vars

(***************************************************************************)
(* Properties of the builders and the validator, checked under SpecBuilder *)
(***************************************************************************)

\* text holds piece at position pos
At(text, pos, piece) ==
    /\ pos >= 1 /\ pos + Len(piece) - 1 <= Len(text)
    /\ SubSeq(text, pos, pos + Len(piece) - 1) = piece

\* Sum of the lengths of the first n items
RECURSIVE SumLen(_, _)
SumLen(items, n) == IF n = 0 THEN 0 ELSE Len(items[n]) + SumLen(items, n - 1)

\* Number of positions of text that hold character c
Count(text, c) == Cardinality({ k \in 1..Len(text) : text[k] = c })

HasQuote(v) == \E k \in 1..Len(v) : v[k] = "'"

\* The last builder call has lists of one length
EqualLength == Len(built.call.columns) = Len(built.call.values)

\* "INSERT INTO {catalog}.{schema}.{table} (" as specified
ExpectedInsertHead ==
    <<"I","N","S","E","R","T"," ","I","N","T","O"," ">> \o built.call.catalog \o <<".">> \o built.call.schema
      \o <<".">> \o built.call.table \o <<" ","(">>

\* Position of column i in an INSERT statement of the last call
InsertColumnAt(i) ==
    Len(ExpectedInsertHead) + SumLen(built.call.columns, i - 1) + 2 * (i - 1) + 1

\* Position after the ") VALUES (" of an INSERT statement of the last call
InsertValuesAt ==
    LET n == Len(built.call.columns)
    IN Len(ExpectedInsertHead) + SumLen(built.call.columns, n)
         + 2 * (IF n = 0 THEN 0 ELSE n - 1) + Len(<<")"," ","V","A","L","U","E","S"," ","(">>) + 1

\* C1: for equal-length non-empty columns and values of length N, literal
\* build_insert_query returns INSERT INTO {catalog}.{schema}.{table} (c1,
\* ..., cN) VALUES ('v1', ..., 'vN'); -- the columns joined by ", " in the
\* given order, values[i] in single quotes at the position of columns[i],
\* one terminating ";" and no leading or trailing whitespace; columns
\* [id, name] with values [1, bob] on my_catalog.my_schema.my_table give
\* INSERT INTO my_catalog.my_schema.my_table (id, name) VALUES ('1', 'bob');
C1_InsertLiteralShape ==
    LET c == built.call
        text == built.text
        n == Len(c.columns)
        ValueAt(i) == InsertValuesAt + SumLen(c.values, i - 1) + 4 * (i - 1)
    IN (c.fn = "build_insert_query" /\ ~c.param_mode /\ EqualLength /\ n >= 1) =>
          /\ At(text, 1, ExpectedInsertHead)
          /\ \A i \in 1..n :
                /\ At(text, InsertColumnAt(i), c.columns[i])
                /\ At(text, InsertColumnAt(i) + Len(c.columns[i]),
                      IF i < n THEN <<",", " ">> ELSE <<")"," ","V","A","L","U","E","S"," ","(">>)
                /\ At(text, ValueAt(i), <<"'">> \o c.values[i] \o <<"'">>)
                /\ At(text, ValueAt(i) + Len(c.values[i]) + 2,
                      IF i < n THEN <<",", " ">> ELSE <<")", ";">>)
          /\ Len(text) = ValueAt(n) + Len(c.values[n]) + 3
          /\ text[Len(text)] = ";" /\ text[Len(text) - 1] # ";"
          /\ text[1] \notin Whitespace
          /\ (c.catalog = my_catalog /\ c.schema = my_schema /\ c.table = my_table
                /\ c.columns = <<id, name>> /\ c.values = << <<"1">>, bob >>)
               => text = <<"I","N","S","E","R","T"," ","I","N","T","O"," ","m","y","_","c","a","t","a","l","o","g",".","m","y","_","s","c","h","e","m","a",".","m","y","_","t","a","b","l","e"," ","(","i","d",","," ","n","a","m","e",")"," ","V","A","L","U","E","S"," ","(","'","1","'",","," ","'","b","o","b","'",")",";">>

C1_Witness ==
    /\ built.call.fn = "build_insert_query" /\ ~built.call.param_mode
    /\ built.call.catalog = my_catalog
    /\ built.call.columns = <<id, name>> /\ built.call.values = << <<"1">>, bob >>
    /\ call = built.call /\ ret.kind = "returned"

ExpectedUpdateHead ==
    <<"U","P","D","A","T","E"," ">> \o built.call.catalog \o <<".">> \o built.call.schema
      \o <<".">> \o built.call.table \o <<" ","S","E","T"," ">>

\* C3: for equal-length set_columns and set_values (the empty pair too),
\* build_update_query returns UPDATE {catalog}.{schema}.{table} SET
\* <assignments> WHERE <predicate>; with the assignments in set_columns
\* order joined by ", ", each col='value' (literal, set_values[i] with
\* set_columns[i]) or col=? (parameterized), and the predicate
\* where_column='where_value' or where_column=?; with no set column the SET
\* list is empty and the WHERE clause is still formed; set_columns [name],
\* set_values [alice], where id = 1, parameterized give
\* UPDATE my_catalog.my_schema.my_table SET name=? WHERE id=?;
C3_UpdateShape ==
    LET c == built.call
        text == built.text
        n == Len(c.columns)
        Assignment(i) == IF c.param_mode THEN c.columns[i] \o <<"=", "?">>
                         ELSE c.columns[i] \o <<"=", "'">> \o c.values[i] \o <<"'">>
        assignments == [i \in 1..n |-> Assignment(i)]
        AssignmentAt(i) == Len(ExpectedUpdateHead) + SumLen(assignments, i - 1)
                             + 2 * (i - 1) + 1
        whereAt == Len(ExpectedUpdateHead) + SumLen(assignments, n)
                     + 2 * (IF n = 0 THEN 0 ELSE n - 1) + 1
        predicate == IF c.param_mode THEN c.where_column \o <<"=", "?">>
                     ELSE c.where_column \o <<"=", "'">> \o c.where_value \o <<"'">>
    IN (c.fn = "build_update_query" /\ EqualLength) =>
          /\ At(text, 1, ExpectedUpdateHead)
          /\ \A i \in 1..n :
                /\ At(text, AssignmentAt(i), Assignment(i))
                /\ i < n => At(text, AssignmentAt(i) + Len(Assignment(i)), <<",", " ">>)
          /\ At(text, whereAt, <<" ","W","H","E","R","E"," ">> \o predicate \o <<";">>)
          /\ Len(text) = whereAt + Len(<<" ","W","H","E","R","E"," ">>) + Len(predicate)
          /\ (c.catalog = my_catalog /\ c.schema = my_schema /\ c.table = my_table
                /\ c.columns = <<name>> /\ c.values = <<alice>> /\ c.where_column = id
                /\ c.where_value = <<"1">> /\ c.param_mode)
               => text = <<"U","P","D","A","T","E"," ","m","y","_","c","a","t","a","l","o","g",".","m","y","_","s","c","h","e","m","a",".","m","y","_","t","a","b","l","e"," ","S","E","T"," ","n","a","m","e","=","?"," ","W","H","E","R","E"," ","i","d","=","?",";">>

C3_Witness ==
    /\ built.call.fn = "build_update_query" /\ built.call.param_mode
    /\ built.call.catalog = my_catalog
    /\ built.call.columns = <<name>> /\ built.call.values = <<alice>>
    /\ built.call.where_column = id /\ built.call.where_value = <<"1">>
    /\ call = built.call /\ ret.kind = "returned"

\* C4: a builder called with a column list and a value list of different
\* lengths fails with a contract violation and produces no SQL text.
C4_LengthMismatchRejected ==
    (call.fn \in {"build_insert_query", "build_update_query"}
       /\ Len(call.columns) # Len(call.values))
      => (ret.kind = "raised" /\ ret.text = <<>>)

\* C6: is_valid_sql returns true only if parsing gives at least one
\* top-level unit and every unit is a group; it returns false for the empty
\* string and for the incomplete text INSERT INTO, and true for the
\* well-formed INSERT INTO a.b.c (id) VALUES ('1');
C6_ValidatorVerdicts ==
    (call.fn = "is_valid_sql" /\ call.fault = NoFault) =>
        /\ ret.value =>
              (Len(parse(call.query)) >= 1
                 /\ \A k \in 1..Len(parse(call.query)) : parse(call.query)[k].is_group)
        /\ call.query = <<>> => ~ret.value
        /\ call.query = <<"I","N","S","E","R","T"," ","I","N","T","O">> => ~ret.value
        /\ call.query = <<"I","N","S","E","R","T"," ","I","N","T","O"," ","a",".","b",".","c"," ","(","i","d",")"," ","V","A","L","U","E","S"," ","(","'","1","'",")",";">> => ret.value

\* C7: a literal-mode statement built from a value that holds a single
\* quote embeds the value unescaped, and is_valid_sql returns false for it.
C7_UnbalancedQuoteRejected ==
    LET c == built.call
        embedded == IF c.fn = "build_update_query"
                    THEN Range(c.values) \cup {c.where_value} ELSE Range(c.values)
    IN (call.fn = "is_valid_sql" /\ call.fault = NoFault /\ c.fn # "none"
          /\ call.query = built.text /\ ~c.param_mode /\ EqualLength
          /\ \E v \in embedded : HasQuote(v))
         => /\ \A v \in embedded :
                 \E pos \in 1..Len(built.text) : At(built.text, pos, <<"'">> \o v \o <<"'">>)
            /\ ~ret.value

\* C8: when the parser raises while is_valid_sql processes a statement,
\* is_valid_sql returns false and reports the parser's message; the error
\* does not leave is_valid_sql.
C8_ParserErrorContained ==
    (call.fn = "is_valid_sql" /\ call.fault # NoFault) =>
        /\ ret.kind = "returned"
        /\ ret.value = FALSE
        /\ \E k \in 1..Len(ret.errors) :
              ret.errors[k] = <<"S","Q","L"," ","v","a","l","i","d","a","t","i","o","n"," ","e","r","r","o","r",":"," ">> \o call.fault

C8_Witness ==
    /\ call.fn = "is_valid_sql" /\ call.fault \in FaultMessages
    /\ built.call.fn = "build_insert_query" /\ call.query = built.text
    /\ ret.errors # <<>>

(***************************************************************************)
(* Properties of the script's handlers, checked under Spec                 *)
(***************************************************************************)

\* A value is blank: empty or all whitespace
IsBlank(v) == \A k \in 1..Len(v) : v[k] \in {" ", "\t", "\n"}

\* is_mandatory reads yes in some mix of cases
SaysYes(flag) ==
    Len(flag) = 3 /\ flag[1] \in {"y", "Y"} /\ flag[2] \in {"e", "E"} /\ flag[3] \in {"s", "S"}

\* seq lists exactly the members of S, each once, in the order of columns_df
ListsInMetadataOrder(seq, S) ==
    /\ Range(seq) = S /\ Len(seq) = Cardinality(S)
    /\ \A i, j \in 1..Len(seq) :
          i < j => \E a, b \in 1..Len(columns_df) :
                      a < b /\ columns_df[a].column_name = seq[i]
                            /\ columns_df[b].column_name = seq[j]

MandatoryNames == { columns_df[k].column_name :
                      k \in { r \in 1..Len(columns_df) : SaysYes(columns_df[r].is_mandatory) } }

\* The text typed for a mandatory column, an optional column, a column to update
EnteredInsert(col) == text_input[<<"i","n","s","e","r","t","_">> \o col]
EnteredOptional(col) == text_input[<<"i","n","s","e","r","t","_","o","p","t","i","o","n","a","l","_">> \o col]
EnteredUpdate(col) == text_input[<<"u","p","d","a","t","e","_">> \o col]

\* The items of a text that joins them with ", " (none of them holds ", ")
RECURSIVE SplitCommaSpace(_)
SplitCommaSpace(text) ==
    IF \E k \in 1..(Len(text) - 1) : text[k] = "," /\ text[k + 1] = " "
    THEN LET k == CHOOSE k \in 1..(Len(text) - 1) :
                     /\ text[k] = "," /\ text[k + 1] = " "
                     /\ \A m \in 1..(k - 1) : ~(text[m] = "," /\ text[m + 1] = " ")
         IN << SubSeq(text, 1, k - 1) >> \o SplitCommaSpace(SubSeq(text, k + 2, Len(text)))
    ELSE << text >>

OpsOf(evs) == [k \in 1..Len(evs) |-> evs[k].op]

\* C5: on a Generate Insert Query click the missing-field list reported is
\* exactly the mandatory columns whose value is empty or all whitespace, in
\* mandatory-column order; build_insert_query is called if and only if that
\* list is empty, and when it is not, nothing is built, validated or shown.
C5_MandatoryGate ==
    LET blank == { c \in MandatoryNames : IsBlank(EnteredInsert(c)) }
        prefix == <<"<siren>"," ","M","a","n","d","a","t","o","r","y"," ","f","i","e","l","d","s"," ","m","i","s","s","i","n","g"," ","v","a","l","u","e","s",":"," ">>
    IN button = "insert" =>
          /\ (blank # {}) =>
                /\ Len(events) = 1 /\ events[1].op = "st.error"
                /\ At(events[1].text, 1, prefix)
                /\ ListsInMetadataOrder(
                       SplitCommaSpace(SubSeq(events[1].text, Len(prefix) + 1,
                                              Len(events[1].text))), blank)
          /\ (blank = {}) => (events # <<>> /\ events[1].op = "build_insert_query")
          /\ (\E k \in 1..Len(events) : events[k].op = "build_insert_query") <=> (blank = {})

C5_Witness ==
    /\ button = "insert"
    /\ mandatory_columns = <<id, name>>
    /\ EnteredInsert(id) = <<>> /\ EnteredInsert(name) = bob
    /\ events = << Event("st.error", <<"<siren>"," ","M","a","n","d","a","t","o","r","y"," ","f","i","e","l","d","s"," ","m","i","s","s","i","n","g"," ","v","a","l","u","e","s",":"," ">> \o id, FALSE, <<>>, <<>>) >>

\* The statement an event shows or offers: the argument of st.code, the
\* decoded data of st.download_button
Shown(e) == IF e.op = "st.download_button" THEN Decode(e.text) ELSE e.text

IsInvalidMsg(text) == text \in { <<"<cross>"," ","G","e","n","e","r","a","t","e","d"," ","I","N","S","E","R","T"," ","q","u","e","r","y"," ","i","s"," ","i","n","v","a","l","i","d","!">>, <<"<cross>"," ","G","e","n","e","r","a","t","e","d"," ","U","P","D","A","T","E"," ","q","u","e","r","y"," ","i","s"," ","i","n","v","a","l","i","d","!">> }

\* The statement is shown and offered only after is_valid_sql was called on
\* exactly that statement and returned true, and that after the statement
\* was built: build, then validate, then surface.
C9_Ordering ==
    \A i \in 1..Len(events) :
       /\ events[i].op \in {"st.code", "st.download_button"} =>
             \E j \in 1..(i - 1) :
                /\ events[j].op = "is_valid_sql" /\ events[j].ok
                /\ events[j].text = Shown(events[i])
                /\ \E k \in 1..(j - 1) :
                      /\ events[k].op \in {"build_insert_query", "build_update_query"}
                      /\ events[k].text = events[j].text
       /\ events[i].op = "is_valid_sql" =>
             /\ i = 2 /\ events[1].text = events[i].text
             /\ events[1].op =
                   (IF button = "insert" THEN "build_insert_query" ELSE "build_update_query")
             /\ events[i].ok =>
                   OpsOf(SubSeq(events, i + 1, Len(events)))
                      = << "st.success", "st.code", "st.download_button" >>

\* C9 as stated: in every run of the two generate actions the statement is
\* shown and offered for download only after is_valid_sql was called on
\* exactly that statement and returned true; when is_valid_sql returns
\* false the statement is neither shown nor downloadable and only an
\* "invalid" error is reported; the order is build, validate, surface.
C9_SurfaceOnlyInvalidError ==
    button \in {"insert", "update"} =>
       /\ C9_Ordering
       /\ \A i \in 1..Len(events) :
             (events[i].op = "is_valid_sql" /\ ~events[i].ok) =>
                /\ \A k \in 1..Len(events) :
                      events[k].op \notin {"st.success", "st.code", "st.download_button"}
                /\ \E k \in 1..Len(events) :
                      /\ events[k].op = "st.error" /\ IsInvalidMsg(events[k].text)
                      /\ \A m \in 1..Len(events) : events[m].op = "st.error" => m = k

\* C9 as amended: as above, but when is_valid_sql returns false the errors
\* reported are those is_valid_sql itself reported (SQL validation error:
\* and the parser's message) followed by the handler's "invalid" error.
C9_SurfaceAfterValidation ==
    button \in {"insert", "update"} =>
       /\ C9_Ordering
       /\ \A i \in 1..Len(events) :
             (events[i].op = "is_valid_sql" /\ ~events[i].ok) =>
                /\ \A k \in 1..Len(events) :
                      events[k].op \notin {"st.success", "st.code", "st.download_button"}
                /\ events[Len(events)].op = "st.error"
                /\ events[Len(events)].text =
                      (IF button = "insert" THEN <<"<cross>"," ","G","e","n","e","r","a","t","e","d"," ","I","N","S","E","R","T"," ","q","u","e","r","y"," ","i","s"," ","i","n","v","a","l","i","d","!">> ELSE <<"<cross>"," ","G","e","n","e","r","a","t","e","d"," ","U","P","D","A","T","E"," ","q","u","e","r","y"," ","i","s"," ","i","n","v","a","l","i","d","!">>)
                /\ \A m \in (i + 1)..(Len(events) - 1) :
                      /\ events[m].op = "st.error"
                      /\ At(events[m].text, 1, <<"S","Q","L"," ","v","a","l","i","d","a","t","i","o","n"," ","e","r","r","o","r",":"," ">>)

C9_Witness ==
    /\ button = "update"
    /\ Len(events) = 4
    /\ events[1].op = "build_update_query"
    /\ events[2].op = "is_valid_sql" /\ ~events[2].ok /\ events[2].text = events[1].text
    /\ events[3].op = "st.error" /\ events[4].op = "st.error"
    /\ events[4].text = <<"<cross>"," ","G","e","n","e","r","a","t","e","d"," ","U","P","D","A","T","E"," ","q","u","e","r","y"," ","i","s"," ","i","n","v","a","l","i","d","!">>

\* C10: the lists the script passes to the builders have one length and are
\* aligned: final_columns is the mandatory columns in metadata order and
\* then the selected optional columns, final_values[i] is the value typed
\* for final_columns[i], update_values[i] the value typed for
\* update_columns[i].
C10_AlignedArguments ==
    \A k \in 1..Len(events) :
       /\ events[k].op = "build_insert_query" =>
             LET cols == events[k].columns
                 vals == events[k].values
                 m == Cardinality(MandatoryNames)
             IN /\ Len(cols) = Len(vals)
                /\ Len(cols) = m + Len(selected_optional_cols)
                /\ ListsInMetadataOrder(SubSeq(cols, 1, m), MandatoryNames)
                /\ SubSeq(cols, m + 1, Len(cols)) = selected_optional_cols
                /\ \A i \in 1..Len(cols) :
                      vals[i] = (IF i <= m THEN EnteredInsert(cols[i])
                                 ELSE EnteredOptional(cols[i]))
       /\ events[k].op = "build_update_query" =>
             LET cols == events[k].columns
                 vals == events[k].values
             IN /\ Len(cols) = Len(vals)
                /\ cols = update_columns
                /\ Range(cols) \subseteq Range(mandatory_columns \o selected_optional_cols)
                /\ \A i \in 1..Len(cols) : vals[i] = EnteredUpdate(cols[i])

C10_Witness ==
    /\ button = "insert"
    /\ events # <<>> /\ events[1].op = "build_insert_query"
    /\ events[1].columns = <<id, name>>
    /\ events[1].values = <<bob, OBrien>>
    /\ selected_optional_cols = <<name>>

Next ==
    \/ EditCatalog \/ EditSchema \/ ToggleParamMode \/ EditText
    \/ SelectOptional \/ SelectUpdate \/ SelectWhere
    \/ GenerateInsert \/ GenerateUpdate

Spec == Init /\ [][Next]_vars

=============================================================================
